---------------------------- MODULE Spec2Model ----------------------------
(***************************************************************************)
(* A model of netcom-rs: the netstring codec (netstring.rs) and the        *)
(* blocking / cooperative protocol clients (netcom_client_sync.rs,         *)
(* netcom_client_async.rs, netcom.rs).                                     *)
(*                                                                         *)
(* Bytes are natural numbers 0..255 and text is written as its ASCII       *)
(* codes.  A usize is kept as four 16-bit limbs so that 64-bit arithmetic  *)
(* (and its overflow) is computed exactly.                                 *)
(***************************************************************************)
EXTENDS Integers, Sequences, FiniteSets, TLC

VARIABLES
    overflow_checks,  \* build profile: TRUE = overflow panics, FALSE = wraps
    payload,          \* codec: the String handed to to_netstring
    buffer,           \* codec: the byte buffer handed to parse_netstring
    parsed,           \* codec: what parse_netstring returned
    stage,            \* codec: "input" | "encoded" | "parsed" | "retried" | "reading" | "returned"
    earlier,          \* codec: the buffer and the result of the call before the retry
    origin,           \* codec: "payload" (buffer was encoded) | "raw"
    stream,           \* client: self.stream, NoStream or the transport held
    version,          \* client: self.version
    auto_connect,     \* client: self.auto_connect
    opened,           \* transports the client has installed so far
    inbox,            \* transport: bytes received and not yet read
    pending,          \* transport: bytes of the peer's reply still on their way
    unanswered,       \* transport: writes the peer has not replied to
    handshaken,       \* transport: connect() stored a version read from it
    closed,           \* transport: the peer closed the connection
    pc,               \* "idle" | "connect_read" | "wait_read" | "panicked" | "dropped"
    call,             \* the public call in progress, or the last one
    calllog,          \* the transport operations of that call, in order
    msg,              \* read_netstring's local msg
    result,           \* what the last call returned
    response,         \* the DTO wait_for_response returned in that call
    params,           \* the caller's record handed to read_struct / write_struct
    calls,            \* public calls made so far
    cooperative,      \* a NetcomClientAsync given the same calls and transport outcomes
    struct_bindings,  \* derive: the #[param] bindings of the struct, in field order
    original,         \* derive: the record before a generated method ran on it
    target,           \* derive: the record the generated methods are called on
    result_map,       \* derive: the map handed to apply_result
    ops,              \* derive: what to_rdops / to_wrops returned
    macro_pc,         \* derive: "input" | "applied" | "rdops" | "wrops" | "compiled"
    wr_parameters,    \* write_parameters: the Vec<WrOp> it was called with
    wire_map          \* write_parameters: the map p of the request it built

codecVars == <<payload, buffer, parsed, stage, origin, earlier>>

transportVars == <<opened, inbox, pending, unanswered, handshaken, closed>>

clientVars ==
    <<stream, version, auto_connect, transportVars, pc, call, calllog, msg, result,
      response, params, calls, cooperative>>

macroVars ==
    <<struct_bindings, original, target, result_map, ops, macro_pc, wr_parameters,
      wire_map>>

vars == <<overflow_checks, codecVars, clientVars, macroVars>>

-----------------------------------------------------------------------------
(* ASCII *)

ZERO == 48
NINE == 57
COLON == 58
COMMA == 44
LETTER_X == 120

IsDigit(c) == c >= ZERO /\ c <= NINE

-----------------------------------------------------------------------------
(* usize: 64 bits as four 16-bit limbs, least significant first *)

LimbBase == 256 * 256

UsizeZero == <<0, 0, 0, 0>>

\* x * m + a on 64 bits, for small m and a: the wrapped value and whether the
\* exact value did not fit
UsizeMulAdd(x, m, a) ==
    LET t1 == x[1] * m + a
        t2 == x[2] * m + (t1 \div LimbBase)
        t3 == x[3] * m + (t2 \div LimbBase)
        t4 == x[4] * m + (t3 \div LimbBase)
    IN  [val |-> <<t1 % LimbBase, t2 % LimbBase, t3 % LimbBase, t4 % LimbBase>>,
         overflow |-> (t4 \div LimbBase) > 0]

UsizeAdd(x, a) == UsizeMulAdd(x, 1, a)

\* a usize that is a small number (every length and index of the model is)
UsizeIsSmall(x) == x[2] = 0 /\ x[3] = 0 /\ x[4] = 0

\* n < x for a small n
SmallLessThan(n, x) == ~UsizeIsSmall(x) \/ n < x[1]

\* 2^64 = 18446744073709551616 as a length prefix, then ":," : the length
\* does not fit a usize
TwoTo64Digits == <<49, 56, 52, 52, 54, 55, 52, 52, 48, 55, 51, 55, 48, 57, 53, 53, 49, 54, 49, 54>>

\* 2^64 + 1
TwoTo64Plus1Digits == <<49, 56, 52, 52, 54, 55, 52, 52, 48, 55, 51, 55, 48, 57, 53, 53, 49, 54, 49, 55>>

-----------------------------------------------------------------------------
(* netstring.rs *)

Incomplete == [kind |-> "Incomplete", payload |-> <<>>]
Malformed == [kind |-> "Malformed", payload |-> <<>>]
Panicked == [kind |-> "Panic", payload |-> <<>>]
Complete(p) == [kind |-> "Ok", payload |-> p]

\* the while loop of parse_netstring: i bytes consumed, string_length so far
RECURSIVE ScanLength(_, _, _, _)
ScanLength(buf, i, string_length, checks) ==
    IF ~(i < Len(buf))
    THEN [exit |-> "end", i |-> i, string_length |-> string_length]
    ELSE LET c == buf[i + 1]
             acc == UsizeMulAdd(string_length, 10, c - ZERO)
         IN  IF IsDigit(c)
             THEN IF acc.overflow /\ checks
                  THEN [exit |-> "panic", i |-> i + 1, string_length |-> string_length]
                  ELSE ScanLength(buf, i + 1, acc.val, checks)
             ELSE IF c = COLON
                  THEN [exit |-> "break", i |-> i + 1, string_length |-> string_length]
                  ELSE [exit |-> "malformed", i |-> i + 1, string_length |-> string_length]

\* FinishParse without the test of the terminator byte
FinishParse_AnyTerminator(buf, i, string_length, checks) ==
    LET need == UsizeAdd(string_length, i + 1)
        at == UsizeAdd(string_length, i)
        idx == at.val[1]
    IN  IF i = Len(buf) THEN Incomplete
        ELSE IF need.overflow /\ checks THEN Panicked
        ELSE IF SmallLessThan(Len(buf), need.val) THEN Incomplete
        ELSE IF ~UsizeIsSmall(at.val) \/ idx >= Len(buf) THEN Panicked
        ELSE IF idx < i THEN Panicked
        ELSE Complete(SubSeq(buf, i + 1, idx))

\* the part of parse_netstring after the loop
FinishParse(buf, i, string_length, checks) ==
    LET need == UsizeAdd(string_length, i + 1)
        at == UsizeAdd(string_length, i)
        idx == at.val[1]
    IN  IF i = Len(buf) THEN Incomplete
        ELSE IF need.overflow /\ checks THEN Panicked
        ELSE IF SmallLessThan(Len(buf), need.val) THEN Incomplete
        ELSE IF ~UsizeIsSmall(at.val) \/ idx >= Len(buf) THEN Panicked
        ELSE IF buf[idx + 1] # COMMA THEN Malformed
        ELSE IF idx < i THEN Panicked
        ELSE Complete(SubSeq(buf, i + 1, idx))

\* parse_netstring that takes a frame only when the buffer ends with it
parse_netstring_WholeBufferOnly(buf, checks) ==
    IF Len(buf) < 3 THEN Incomplete
    ELSE LET scan == ScanLength(buf, 0, UsizeZero, checks)
             rest == FinishParse(buf, scan.i, scan.string_length, checks)
         IN  CASE scan.exit = "panic" -> Panicked
               [] scan.exit = "malformed" -> Malformed
               [] rest.kind = "Ok" /\ scan.i + Len(rest.payload) + 1 # Len(buf) -> Malformed
               [] OTHER -> rest

parse_netstring(buf, checks) ==
    IF Len(buf) < 3 THEN Incomplete
    ELSE LET scan == ScanLength(buf, 0, UsizeZero, checks)
         IN  CASE scan.exit = "panic" -> Panicked
               [] scan.exit = "malformed" -> Malformed
               [] OTHER -> FinishParse(buf, scan.i, scan.string_length, checks)

\* to_string with the digits in the order they are computed, lowest first
RECURSIVE to_string_LowestFirst(_)
to_string_LowestFirst(n) ==
    IF n < 10 THEN <<ZERO + n>>
    ELSE <<ZERO + (n % 10)>> \o to_string_LowestFirst(n \div 10)

\* usize::to_string: the decimal digits of n, no leading zeros
RECURSIVE to_string(_)
to_string(n) ==
    IF n < 10 THEN <<ZERO + n>>
    ELSE Append(to_string(n \div 10), ZERO + (n % 10))

to_netstring(s) == to_string(Len(s)) \o <<COLON>> \o s \o <<COMMA>>

-----------------------------------------------------------------------------
(* JSON text, as serde_json writes and reads it.  A JSON value is a record  *)
(* [t, n, s, items]; an object's items are its members [k, v] in the order  *)
(* of the text.                                                              *)

\* the UTF-8 bytes of the strings the model uses
Utf8(s) ==
    CASE s = "r" -> <<114>>
      [] s = "R" -> <<82>>
      [] s = "device" -> <<100, 101, 118, 105, 99, 101>>
      [] s = "p" -> <<112>>
      [] s = "name" -> <<110, 97, 109, 101>>
      [] s = "result" -> <<114, 101, 115, 117, 108, 116>>
      [] s = "devices" -> <<100, 101, 118, 105, 99, 101, 115>>
      [] s = "version" -> <<118, 101, 114, 115, 105, 111, 110>>
      [] s = "v" -> <<118>>
      [] s = "t" -> <<116>>
      [] s = "device-list" -> <<100, 101, 118, 105, 99, 101, 45, 108, 105, 115, 116>>
      [] s = "client-info" -> <<99, 108, 105, 101, 110, 116, 45, 105, 110, 102, 111>>
      [] s = "read" -> <<114, 101, 97, 100>>
      [] s = "write" -> <<119, 114, 105, 116, 101>>
      [] s = "d" -> <<100>>
      [] s = "a" -> <<97>>
      [] s = "b" -> <<98>>
      [] s = "c" -> <<99>>
      [] s = "1" -> <<49>>
      [] s = "i16" -> <<105, 49, 54>>

JNull == [t |-> "null", n |-> 0, s |-> "", items |-> <<>>]
JNum(x) == [t |-> "num", n |-> x, s |-> "", items |-> <<>>]
JStr(x) == [t |-> "str", n |-> 0, s |-> x, items |-> <<>>]
JArr(xs) == [t |-> "arr", n |-> 0, s |-> "", items |-> xs]
JObj(ms) == [t |-> "obj", n |-> 0, s |-> "", items |-> ms]
Member(key, value) == [k |-> key, v |-> value]

\* serde_json::to_string of a value; an f64 of integral value x prints as x.0
RECURSIVE JsonText(_)
RECURSIVE JsonItems(_, _)
JsonItems(items, isObject) ==
    IF items = <<>> THEN <<>>
    ELSE LET first == Head(items)
             text == IF isObject
                     THEN <<34>> \o Utf8(first.k) \o <<34, 58>> \o JsonText(first.v)
                     ELSE JsonText(first)
         IN  IF Len(items) = 1 THEN text
             ELSE text \o <<44>> \o JsonItems(Tail(items), isObject)
JsonText(j) ==
    CASE j.t = "null" -> <<110, 117, 108, 108>>
      [] j.t = "num" -> to_string(j.n) \o <<46, 48>>
      [] j.t = "str" -> <<34>> \o Utf8(j.s) \o <<34>>
      [] j.t = "arr" -> <<91>> \o JsonItems(j.items, FALSE) \o <<93>>
      [] j.t = "obj" -> <<123>> \o JsonItems(j.items, TRUE) \o <<125>>

-----------------------------------------------------------------------------
(* dto.rs, and parse_json of netcom.rs *)

\* Option<T>
None == [some |-> FALSE, v |-> 0]
Some(x) == [some |-> TRUE, v |-> x]

HasMember(j, key) == j.t = "obj" /\ \E i \in 1..Len(j.items) : j.items[i].k = key

\* the value of the object's (first) member named key
Get(j, key) == j.items[CHOOSE i \in 1..Len(j.items) : j.items[i].k = key].v

\* the object has a member key whose value is of JSON type t
Field(j, key, t) == HasMember(j, key) /\ Get(j, key).t = t

\* HashMap<String, Option<f64>> read from a JSON object
OptionMap(j) ==
    [key \in {j.items[i].k : i \in 1..Len(j.items)} |->
        IF Get(j, key).t = "num" THEN Some(Get(j, key).n) ELSE None]

NoDto == [r |-> "", version |-> "", devices |-> <<>>, result |-> <<>>]

\* #[derive(Deserialize)] of each response DTO: the fields it requires, other
\* members of the object ignored
Deserializes(T, j) ==
    CASE T = "UpgradeResponseDto" -> Field(j, "version", "str")
      [] T = "DeviceListResponseDto" ->
            /\ Field(j, "R", "str")
            /\ Field(j, "devices", "arr")
            /\ Get(j, "devices").items = <<>>   \* no document lists a device
      [] T = "ClientInfoResponseDto" -> Field(j, "R", "str")
      [] T \in {"ReadResponseDto", "WriteResponseDto"} ->
            /\ Field(j, "R", "str")
            /\ Field(j, "result", "obj")
            /\ \A i \in 1..Len(Get(j, "result").items) :
                   Get(j, "result").items[i].v.t \in {"num", "null"}

Deserialize(T, j) ==
    CASE T = "UpgradeResponseDto" -> [NoDto EXCEPT !.version = Get(j, "version").s]
      [] T = "DeviceListResponseDto" ->
            [NoDto EXCEPT !.r = Get(j, "R").s, !.devices = Get(j, "devices").items]
      [] T = "ClientInfoResponseDto" -> [NoDto EXCEPT !.r = Get(j, "R").s]
      [] T \in {"ReadResponseDto", "WriteResponseDto"} ->
            [NoDto EXCEPT !.r = Get(j, "R").s, !.result = OptionMap(Get(j, "result"))]

\* the JSON documents a peer of the model sends
VersionDoc == JObj(<<Member("version", JStr("1"))>>)
DeviceListDoc == JObj(<<Member("R", JStr("device-list")), Member("devices", JArr(<<>>))>>)
ClientInfoDoc == JObj(<<Member("R", JStr("client-info"))>>)
ReadDoc ==
    JObj(<<Member("R", JStr("read")),
           Member("result", JObj(<<Member("a", JNum(1)), Member("b", JNull)>>))>>)
WriteDoc ==
    JObj(<<Member("R", JStr("write")), Member("result", JObj(<<Member("a", JNum(2))>>))>>)
EmptyDoc == JObj(<<>>)

SampleDocs == {VersionDoc, DeviceListDoc, ClientInfoDoc, ReadDoc, WriteDoc, EmptyDoc}

\* std::str::from_utf8: the texts of the model are ASCII, or hold the byte
\* 0xFF, which no UTF-8 text holds
INVALID_UTF8_BYTE == 255

from_utf8_ok(data) == \A i \in 1..Len(data) : data[i] < 128

\* serde_json::from_str up to the JSON value: the document whose text this is;
\* any other text of the model is no JSON
IsJson(text) == \E j \in SampleDocs : JsonText(j) = text

JsonValue(text) == CHOOSE j \in SampleDocs : JsonText(j) = text

\* a function's result: Ok(value) or Err(kind); a ResponseError carries the
\* two tags its message names
Ok(x) == [kind |-> "Ok", value |-> x, expected |-> "", got |-> ""]
Err(k) == [kind |-> k, value |-> <<>>, expected |-> "", got |-> ""]
ResponseError(e, g) == [kind |-> "ResponseError", value |-> <<>>, expected |-> e, got |-> g]

parse_json(T, data) ==
    IF ~from_utf8_ok(data) THEN Err("Utf8Error")
    ELSE IF IsJson(data) /\ Deserializes(T, JsonValue(data))
         THEN Ok(Deserialize(T, JsonValue(data)))
         ELSE Err("JsonError")

-----------------------------------------------------------------------------
(* the parameter operations and the requests they compile to *)

RdDefault(name) == [variant |-> "Default", p |-> name, t |-> ""]
RdWithType(name, type) == [variant |-> "WithType", p |-> name, t |-> type]
WrDefault(name, value) == [variant |-> "Default", p |-> name, t |-> "", v |-> value]
WrWithType(name, type, value) == [variant |-> "WithType", p |-> name, t |-> type, v |-> value]

\* HashMap::insert of each operation in turn: a later entry replaces an
\* earlier one of the same name
RECURSIVE InsertAll(_, _)
InsertAll(map, entries) ==
    IF entries = <<>> THEN map
    ELSE LET e == Head(entries)
         IN  InsertAll([key \in DOMAIN map \cup {e.k} |-> IF key = e.k THEN e.v ELSE map[key]],
                       Tail(entries))

EmptyMap == [key \in {} |-> JNull]

\* RdValueDto as serde writes it: Default is null, Detailed is {"t": type}
RdValueJson(op) ==
    IF op.variant = "Default" THEN JNull
    ELSE JObj(<<Member("t", JStr(op.t))>>)

\* WrValueDto as serde writes it: Simple is the number, Detailed is {"v", "t"}
WrValueJson(op) ==
    IF op.variant = "Default" THEN JNum(op.v)
    ELSE JObj(<<Member("v", JNum(op.v)), Member("t", JStr(op.t))>>)

\* the map p of a read request
ReadMap(parameters) ==
    InsertAll(EmptyMap, [i \in 1..Len(parameters) |->
                            Member(parameters[i].p, RdValueJson(parameters[i]))])

\* the map p of a write request with the first operation of a name kept
WriteMap_FirstWins(parameters) ==
    InsertAll(EmptyMap, [i \in 1..Len(parameters) |->
                            Member(parameters[Len(parameters) + 1 - i].p,
                                   WrValueJson(parameters[Len(parameters) + 1 - i]))])

\* the map p of a write request
WriteMap(parameters) ==
    InsertAll(EmptyMap, [i \in 1..Len(parameters) |->
                            Member(parameters[i].p, WrValueJson(parameters[i]))])

\* the orders in which a HashMap may be iterated
KeyOrders(map) ==
    {order \in [1..Cardinality(DOMAIN map) -> DOMAIN map] :
        \A i, j \in DOMAIN order : i # j => order[i] # order[j]}

MapJson(map, order) == JObj([i \in DOMAIN order |-> Member(order[i], map[order[i]])])

\* a request DTO: its tag r and the rest of its members
DeviceListRequestDto == [r |-> "device-list", name |-> "", device |-> "", p |-> EmptyMap]
ClientInfoRequestDto(name) == [r |-> "client-info", name |-> name, device |-> "", p |-> EmptyMap]
build_read_request(device, parameters) ==
    [r |-> "read", name |-> "", device |-> device, p |-> ReadMap(parameters)]
WriteRequestDto(device, parameters) ==
    [r |-> "write", name |-> "", device |-> device, p |-> WriteMap(parameters)]

\* #[derive(Serialize)] of the request DTOs, the members in declaration order
RequestJson(req, order) ==
    CASE req.r = "device-list" -> JObj(<<Member("r", JStr(req.r))>>)
      [] req.r = "client-info" ->
            JObj(<<Member("r", JStr(req.r)), Member("name", JStr(req.name))>>)
      [] OTHER ->
            JObj(<<Member("r", JStr(req.r)), Member("device", JStr(req.device)),
                   Member("p", MapJson(req.p, order))>>)

\* the frames send_request may hand to send_buf for a request
RequestFrames(req) ==
    {to_netstring(JsonText(RequestJson(req, order))) : order \in KeyOrders(req.p)}

-----------------------------------------------------------------------------
(* netcom-macros: what #[derive(NetcomMap)] generates for a record with the *)
(* bindings held in struct_bindings; in the client's specification these    *)
(* are the ones below, and the field `note` has no #[param] attribute     *)

DefaultBindings == <<[field |-> "level", p |-> "a"], [field |-> "limit", p |-> "b"]>>

Bindings == struct_bindings

to_rdops(record) == [i \in 1..Len(Bindings) |-> RdDefault(Bindings[i].p)]

\* to_wrops with the entries in the reverse of the field order
to_wrops_Reversed(record) ==
    [i \in 1..Len(Bindings) |->
        WrDefault(Bindings[Len(Bindings) + 1 - i].p,
                  record[Bindings[Len(Bindings) + 1 - i].field])]

to_wrops(record) ==
    [i \in 1..Len(Bindings) |-> WrDefault(Bindings[i].p, record[Bindings[i].field])]

\* the generated if-let with a null value written to the field as 0
ApplyEntry_NullClears(record, binding, res) ==
    IF binding.p \in DOMAIN res
    THEN [record EXCEPT ![binding.field] = res[binding.p].v]
    ELSE record

\* the generated if-let of one binding
ApplyEntry(record, binding, res) ==
    IF binding.p \in DOMAIN res /\ res[binding.p].some
    THEN [record EXCEPT ![binding.field] = res[binding.p].v]
    ELSE record

RECURSIVE ApplyEntries(_, _, _)
ApplyEntries(record, bindings, res) ==
    IF bindings = <<>> THEN record
    ELSE ApplyEntries(ApplyEntry(record, Head(bindings), res), Tail(bindings), res)

apply_result(record, res) == ApplyEntries(record, Bindings, res)

-----------------------------------------------------------------------------
(* the client: netcom_client_sync.rs (netcom_client_async.rs and the        *)
(* NetcomClient of netcom.rs are the same code line for line)               *)

HandshakeLine_NoNewline == <<80, 82, 79, 84, 79, 51, 48>>

HandshakeLine == <<80, 82, 79, 84, 79, 51, 48, 10>>

READ_BUF_LEN == 128

NoStream == 0
NoVersion == [some |-> FALSE, v |-> ""]

HighLevelOps == {"get_device_list", "push_client_info", "read_parameters", "write_parameters"}
StructOps == {"read_struct", "write_struct"}
Operations == HighLevelOps \cup StructOps

\* the arguments the caller of the model passes
Device == "d"
ClientName == "c"
ReadArgs == <<RdDefault("a")>>
WriteArgs == <<WrDefault("a", 1)>>
InitialRecord == [level |-> 5, limit |-> 6, note |-> 7]

\* the request each operation builds
Request(op, rec) ==
    CASE op = "get_device_list" -> DeviceListRequestDto
      [] op = "push_client_info" -> ClientInfoRequestDto(ClientName)
      [] op = "read_parameters" -> build_read_request(Device, ReadArgs)
      [] op = "write_parameters" -> WriteRequestDto(Device, WriteArgs)
      [] op = "read_struct" -> build_read_request(Device, to_rdops(rec))
      [] op = "write_struct" -> WriteRequestDto(Device, to_wrops(rec))

\* the type each operation asks wait_for_response for
ResponseType(op) ==
    CASE op = "get_device_list" -> "DeviceListResponseDto"
      [] op = "push_client_info" -> "ClientInfoResponseDto"
      [] op \in {"read_parameters", "read_struct"} -> "ReadResponseDto"
      [] op \in {"write_parameters", "write_struct"} -> "WriteResponseDto"

\* the match on r.r that ends each operation
get_device_list_match(r) ==
    IF r.r = "device-list" THEN Ok(r.devices) ELSE ResponseError("device-list", r.r)

push_client_info_match_AcceptAny(r) == Ok(<<>>)

push_client_info_match(r) ==
    IF r.r = "client-info" THEN Ok(<<>>) ELSE ResponseError("device-list", r.r)

read_parameters_match(r) ==
    IF r.r = "read" THEN Ok(r.result) ELSE ResponseError("read", r.r)

write_parameters_match(r) ==
    IF r.r = "write" THEN Ok(r.result) ELSE ResponseError("write", r.r)

MatchResponse(op, r) ==
    CASE op = "get_device_list" -> get_device_list_match(r)
      [] op = "push_client_info" -> push_client_info_match(r)
      [] op \in {"read_parameters", "read_struct"} -> read_parameters_match(r)
      [] op \in {"write_parameters", "write_struct"} -> write_parameters_match(r)

\* the entries of calllog
EvOpen(ok) == [ev |-> "open", ok |-> ok, buf |-> <<>>, n |-> 0]
EvWrite(buf, n, ok) == [ev |-> "write", ok |-> ok, buf |-> buf, n |-> n]
EvRead(data, ok) == [ev |-> "read", ok |-> ok, buf |-> data, n |-> Len(data)]

\* the reads of one read_netstring call are one entry, holding msg
LogRead(log, data, ok) ==
    IF log # <<>> /\ log[Len(log)].ev = "read"
    THEN [log EXCEPT ![Len(log)] = EvRead(data, ok)]
    ELSE Append(log, EvRead(data, ok))

NoCall ==
    [op |-> "none", frame |-> <<>>, connected |-> FALSE, after_abandon |-> FALSE,
     stale |-> FALSE]
NoReturn == [kind |-> "None", value |-> <<>>, expected |-> "", got |-> ""]
Running == [kind |-> "Running", value |-> <<>>, expected |-> "", got |-> ""]
Abandoned == [kind |-> "Abandoned", value |-> <<>>, expected |-> "", got |-> ""]

\* bounds of the client's specification
MaxCalls == 2
ShortWrite == 1
FirstSegment == 2

\* what one write call may accept of len bytes: all of them, or fewer
AcceptedSizes(len) == {len} \cup {n \in {ShortWrite} : n < len}

\* the replies of the peer: a frame of each response document, a frame that is no
\* JSON, a frame that is no UTF-8, bytes that are no frame, and a length
\* prefix of 2^64
PeerScripts ==
    {to_netstring(JsonText(j)) : j \in SampleDocs \ {EmptyDoc}}
    \cup {to_netstring(<<LETTER_X>>), to_netstring(<<INVALID_UTF8_BYTE>>),
          <<ZERO + 1, COLON, LETTER_X, LETTER_X>>,
          TwoTo64Digits \o <<COLON, COMMA>>}

\* the peer's reply arrives at once, or a first segment of it does
FirstSegments(script) == {Len(script)} \cup {k \in {FirstSegment} : k < Len(script)}

\* netcom_client_async.rs, as operators on a record of the client's fields;
\* events are the outcomes of the transport's operations of the call, which
\* the client meets in their order
NetcomClientAsync_new ==
    [stream |-> FALSE, version |-> NoVersion, auto_connect |-> TRUE, at |-> "idle",
     op |-> "none", frame |-> <<>>, msg |-> <<>>, log |-> <<>>, result |-> NoReturn,
     response |-> NoDto, params |-> InitialRecord]

NoEvent == [ev |-> "none", ok |-> FALSE, buf |-> <<>>, n |-> 0]

\* the outcome of the transport operation the client is about to make
NextEvent(c, events, kind) ==
    IF Len(c.log) < Len(events) /\ events[Len(c.log) + 1].ev = kind
    THEN events[Len(c.log) + 1]
    ELSE NoEvent

Logged(c, e) == [c EXCEPT !.log = Append(@, e)]

AsyncReturn(c, res) == [c EXCEPT !.at = "idle", !.result = res, !.msg = <<>>]

\* the client asks the transport for an operation it is not given
Diverged == Err("Diverged")

\* send_buf of the cooperative client with write_all in the place of write
NetcomClientAsync_send_buf_WriteAll(c, buf, events) ==
    LET e == NextEvent(c, events, "write")
    IN  IF e.ev = "none" THEN AsyncReturn(c, Diverged)
        ELSE IF ~e.ok THEN AsyncReturn(Logged(c, EvWrite(buf, 0, FALSE)), Err("StreamError"))
        ELSE [Logged(c, EvWrite(buf, Len(buf), TRUE)) EXCEPT
                 !.at = "wait_read", !.msg = <<>>, !.result = Running]

\* send_buf after prepare(), a stream being held; wait_for_response begins
NetcomClientAsync_send_buf(c, buf, events) ==
    LET e == NextEvent(c, events, "write")
    IN  IF e.ev = "none" THEN AsyncReturn(c, Diverged)
        ELSE IF ~e.ok THEN AsyncReturn(Logged(c, EvWrite(buf, 0, FALSE)), Err("StreamError"))
        ELSE [Logged(c, EvWrite(buf, e.n, TRUE)) EXCEPT
                 !.at = "wait_read", !.msg = <<>>, !.result = Running]

\* connect() up to the suspension of its read_netstring
NetcomClientAsync_connect(c, events) ==
    LET o == NextEvent(c, events, "open")
        c1 == Logged(c, EvOpen(TRUE))
        w == NextEvent(c1, events, "write")
    IN  IF o.ev = "none" THEN AsyncReturn(c, Diverged)
        ELSE IF ~o.ok THEN AsyncReturn(Logged(c, EvOpen(FALSE)), Err("StreamError"))
        ELSE IF w.ev = "none" THEN AsyncReturn(c1, Diverged)
        ELSE IF ~w.ok
             THEN AsyncReturn(Logged(c1, EvWrite(HandshakeLine, 0, FALSE)), Err("StreamError"))
        ELSE [Logged(c1, EvWrite(HandshakeLine, Len(HandshakeLine), TRUE)) EXCEPT
                 !.stream = TRUE, !.at = "connect_read", !.msg = <<>>, !.result = Running]

NetcomClientAsync_begin(c, op, frame) ==
    [c EXCEPT !.op = op, !.frame = frame, !.log = <<>>, !.response = NoDto]

NetcomClientAsync_disconnect(c) == [c EXCEPT !.stream = FALSE]

\* a high-level operation up to its first suspension
NetcomClientAsync_operation(c, op, frame, events) ==
    LET c0 == NetcomClientAsync_begin(c, op, frame)
    IN  IF c0.auto_connect /\ ~c0.stream THEN NetcomClientAsync_connect(c0, events)
        ELSE IF c0.stream THEN NetcomClientAsync_send_buf(c0, frame, events)
        ELSE AsyncReturn(c0, Err("NotConnected"))

\* connect() after read_netstring returned the frame s
NetcomClientAsync_connect_finish(c, s, events) ==
    LET parsedJson == parse_json("UpgradeResponseDto", s)
        c1 == [c EXCEPT !.version = Some(parsedJson.value.version)]
    IN  IF parsedJson.kind # "Ok" THEN AsyncReturn(c, parsedJson)
        ELSE IF c.op = "connect" THEN AsyncReturn(c1, Ok(<<>>))
        ELSE NetcomClientAsync_send_buf(c1, c.frame, events)

\* wait_for_response after read_netstring returned the frame s, and the match
NetcomClientAsync_wait_finish(c, s) ==
    LET parsedJson == parse_json(ResponseType(c.op), s)
        res == MatchResponse(c.op, parsedJson.value)
    IN  IF parsedJson.kind # "Ok" THEN AsyncReturn(c, parsedJson)
        ELSE AsyncReturn([c EXCEPT !.response = parsedJson.value,
                                   !.params = IF c.op = "read_struct" /\ res.kind = "Ok"
                                              THEN apply_result(@, res.value)
                                              ELSE @],
                         res)

\* one turn of read_netstring's loop: stream.read(..).await returns Ok(n)
NetcomClientAsync_read_netstring(c, chunk, checks, events) ==
    LET data == c.msg \o chunk
        frame == parse_netstring(data, checks)
        c1 == [c EXCEPT !.log = LogRead(@, data, TRUE)]
    IN  CASE frame.kind = "Incomplete" -> [c1 EXCEPT !.msg = data]
          [] frame.kind = "Malformed" -> AsyncReturn(c1, Err("NetstringError"))
          [] frame.kind = "Panic" -> [c1 EXCEPT !.at = "panicked", !.stream = FALSE, !.msg = data]
          [] frame.kind = "Ok" /\ c.at = "connect_read" ->
                NetcomClientAsync_connect_finish(c1, frame.payload, events)
          [] frame.kind = "Ok" /\ c.at = "wait_read" ->
                NetcomClientAsync_wait_finish(c1, frame.payload)
          [] OTHER -> AsyncReturn(c1, Diverged)

\* stream.read(..).await returns Err
NetcomClientAsync_read_error(c) ==
    AsyncReturn([c EXCEPT !.log = LogRead(@, c.msg, FALSE)], Err("StreamError"))

InitClient ==
    /\ stream = NoStream
    /\ version = NoVersion
    /\ auto_connect = TRUE
    /\ opened = 0
    /\ inbox = <<>>
    /\ pending = <<>>
    /\ unanswered = 0
    /\ handshaken = FALSE
    /\ closed = FALSE
    /\ pc = "idle"
    /\ call = NoCall
    /\ calllog = <<>>
    /\ msg = <<>>
    /\ result = NoReturn
    /\ response = NoDto
    /\ params = InitialRecord
    /\ calls = 0
    /\ cooperative = NetcomClientAsync_new

\* the call returns res
Return(res, log) ==
    /\ pc' = "idle"
    /\ result' = res
    /\ msg' = <<>>
    /\ calllog' = log

\* connect() up to its call of read_netstring
connect_start ==
    \/ \* TcpStream::connect fails
       /\ Return(Err("StreamError"), <<EvOpen(FALSE)>>)
       /\ UNCHANGED <<stream, transportVars>>
    \/ \* write_all fails: the new stream is dropped, self.stream is as before
       /\ Return(Err("StreamError"), <<EvOpen(TRUE), EvWrite(HandshakeLine, 0, FALSE)>>)
       /\ UNCHANGED <<stream, transportVars>>
    \/ \* self.stream = Some(stream); read_netstring begins
       /\ stream' = opened + 1
       /\ opened' = opened + 1
       /\ inbox' = <<>>
       /\ pending' = <<>>
       /\ unanswered' = 1
       /\ handshaken' = FALSE
       /\ closed' = FALSE
       /\ calllog' = <<EvOpen(TRUE), EvWrite(HandshakeLine, Len(HandshakeLine), TRUE)>>
       /\ pc' = "connect_read"
       /\ msg' = <<>>
       /\ result' = Running

\* send_buf after prepare(), a stream being held: one write call, whose count
\* of accepted bytes is dropped; then wait_for_response begins.  The peer
\* owes a reply to a frame it got whole, none to the first bytes of one
send_buf_write(buf, log) ==
    \/ /\ Return(Err("StreamError"), Append(log, EvWrite(buf, 0, FALSE)))
       /\ unanswered' = unanswered
    \/ \E n \in AcceptedSizes(Len(buf)) :
          /\ calllog' = Append(log, EvWrite(buf, n, TRUE))
          /\ unanswered' = IF n = Len(buf) THEN unanswered + 1 ELSE unanswered
          /\ pc' = "wait_read"
          /\ msg' = <<>>
          /\ result' = Running

\* a public call begins
Begin(op, frame) ==
    /\ pc = "idle"
    /\ calls < MaxCalls
    /\ calls' = calls + 1
    /\ call' = [op |-> op, frame |-> frame, connected |-> stream # NoStream,
                after_abandon |-> result = Abandoned,
                stale |-> unanswered > 0 \/ pending # <<>> \/ inbox # <<>>]
    /\ response' = NoDto

\* pub fn connect
Connect ==
    /\ Begin("connect", <<>>)
    /\ connect_start
    /\ cooperative' = NetcomClientAsync_connect(
                          NetcomClientAsync_begin(cooperative, "connect", <<>>), calllog')
    /\ UNCHANGED <<overflow_checks, codecVars, macroVars, version, auto_connect, params>>

\* pub fn is_connected
is_connected == stream # NoStream

\* disconnect() with self.stream left as it is
disconnect_KeepsStream ==
    /\ stream' = stream
    /\ inbox' = <<>>
    /\ pending' = <<>>
    /\ unanswered' = 0
    /\ handshaken' = FALSE
    /\ closed' = FALSE

\* self.stream = None: the TcpStream is dropped, which closes the transport
disconnect ==
    /\ stream' = NoStream
    /\ inbox' = <<>>
    /\ pending' = <<>>
    /\ unanswered' = 0
    /\ handshaken' = FALSE
    /\ closed' = FALSE

\* pub fn disconnect
Disconnect ==
    /\ Begin("disconnect", <<>>)
    /\ disconnect
    /\ Return(Ok(<<>>), <<>>)
    /\ cooperative' = AsyncReturn(NetcomClientAsync_disconnect(
                                      NetcomClientAsync_begin(cooperative, "disconnect", <<>>)),
                                  Ok(<<>>))
    /\ UNCHANGED <<overflow_checks, codecVars, macroVars, version, auto_connect, opened, params>>

\* impl Drop: the client's lifetime ends while no call borrows it; its
\* fields and what its calls returned are gone with it
Drop ==
    /\ pc = "idle"
    /\ disconnect
    /\ pc' = "dropped"
    /\ version' = NoVersion
    /\ call' = NoCall
    /\ calllog' = <<>>
    /\ result' = NoReturn
    /\ response' = NoDto
    /\ cooperative' = [NetcomClientAsync_disconnect(NetcomClientAsync_new) EXCEPT
                           !.at = "dropped", !.params = params]
    /\ UNCHANGED <<overflow_checks, codecVars, macroVars, auto_connect, opened, msg, params,
                   calls>>

\* prepare(): whether it calls connect()
prepare_connects_Always == auto_connect

prepare_connects == auto_connect /\ stream = NoStream

\* a high-level operation up to its first wait: send_request serializes the
\* request, send_buf calls prepare() and writes the frame
Operation(op) ==
    \E frame \in RequestFrames(Request(op, params)) :
        /\ Begin(op, frame)
        /\ IF prepare_connects
           THEN connect_start
           ELSE IF stream # NoStream
                THEN /\ send_buf_write(frame, <<>>)
                     /\ UNCHANGED <<stream, opened, inbox, pending, handshaken, closed>>
                ELSE /\ Return(Err("NotConnected"), <<>>)
                     /\ UNCHANGED <<stream, transportVars>>
        /\ cooperative' = NetcomClientAsync_operation(cooperative, op, frame, calllog')
        /\ UNCHANGED <<overflow_checks, codecVars, macroVars, version, auto_connect, params>>

GetDeviceList == Operation("get_device_list")
PushClientInfo == Operation("push_client_info")
ReadParameters == Operation("read_parameters")
WriteParameters == Operation("write_parameters")
ReadStruct == Operation("read_struct")
WriteStruct == Operation("write_struct")

\* connect() that goes on to the request when the handshake did not decode
connect_finish_IgnoresError(s, log) ==
    LET parsedJson == parse_json("UpgradeResponseDto", s)
    IN  IF parsedJson.kind # "Ok"
        THEN /\ UNCHANGED <<version, handshaken>>
             /\ send_buf_write(call.frame, log)
        ELSE /\ version' = Some(parsedJson.value.version)
             /\ handshaken' = TRUE
             /\ IF call.op = "connect"
                THEN /\ Return(Ok(<<>>), log)
                     /\ UNCHANGED unanswered
                ELSE send_buf_write(call.frame, log)

\* connect() after read_netstring returned the frame s
connect_finish(s, log) ==
    LET parsedJson == parse_json("UpgradeResponseDto", s)
    IN  IF parsedJson.kind # "Ok"
        THEN /\ Return(parsedJson, log)
             /\ UNCHANGED <<version, handshaken, unanswered>>
        ELSE /\ version' = Some(parsedJson.value.version)
             /\ handshaken' = TRUE
             /\ IF call.op = "connect"
                THEN /\ Return(Ok(<<>>), log)
                             /\ UNCHANGED unanswered
                ELSE send_buf_write(call.frame, log)

\* wait_finish with apply_result run on the decoded response before the match
wait_finish_ApplyBeforeMatch(s, log) ==
    LET parsedJson == parse_json(ResponseType(call.op), s)
        res == MatchResponse(call.op, parsedJson.value)
    IN  IF parsedJson.kind # "Ok"
        THEN /\ Return(parsedJson, log)
             /\ UNCHANGED <<response, params>>
        ELSE /\ response' = parsedJson.value
             /\ Return(res, log)
             /\ params' = IF call.op = "read_struct"
                          THEN apply_result(params, parsedJson.value.result)
                          ELSE params

\* wait_for_response after read_netstring returned the frame s, the match of
\* the operation, and apply_result in read_struct
wait_finish(s, log) ==
    LET parsedJson == parse_json(ResponseType(call.op), s)
        res == MatchResponse(call.op, parsedJson.value)
    IN  IF parsedJson.kind # "Ok"
        THEN /\ Return(parsedJson, log)
             /\ UNCHANGED <<response, params>>
        ELSE /\ response' = parsedJson.value
             /\ Return(res, log)
             /\ params' = IF call.op = "read_struct" /\ res.kind = "Ok"
                          THEN apply_result(params, res.value)
                          ELSE params

\* one turn of read_netstring's loop that returns an error when the read
\* returned no byte
read_turn_StopsAtEof(data, log) ==
    LET frame == parse_netstring(data, overflow_checks)
    IN  CASE data = msg ->
                  /\ Return(Err("NetstringError"), log)
                  /\ UNCHANGED <<stream, version, unanswered, handshaken, response, params>>
          [] data # msg /\ frame.kind = "Incomplete" ->
                  /\ msg' = data
                  /\ calllog' = log
                  /\ UNCHANGED <<stream, version, unanswered, handshaken, pc,
                                 result, response, params>>
          [] data # msg /\ frame.kind = "Malformed" ->
                  /\ Return(Err("NetstringError"), log)
                  /\ UNCHANGED <<stream, version, unanswered, handshaken, response, params>>
          [] data # msg /\ frame.kind = "Panic" ->
                  /\ pc' = "panicked"
                  /\ stream' = NoStream
                  /\ msg' = data
                  /\ calllog' = log
                  /\ UNCHANGED <<version, unanswered, handshaken, result,
                                 response, params>>
          [] data # msg /\ frame.kind = "Ok" /\ pc = "connect_read" ->
                  /\ connect_finish(frame.payload, log)
                  /\ UNCHANGED <<stream, response, params>>
          [] data # msg /\ frame.kind = "Ok" /\ pc = "wait_read" ->
                  /\ wait_finish(frame.payload, log)
                  /\ UNCHANGED <<stream, version, unanswered, handshaken>>

\* one turn of read_netstring's loop after stream.read returned Ok(n): msg,
\* extended by the n bytes, is data; it is parsed and the result matched
read_turn(data, log) ==
    LET frame == parse_netstring(data, overflow_checks)
    IN  CASE frame.kind = "Incomplete" ->
                  /\ msg' = data
                  /\ calllog' = log
                  /\ UNCHANGED <<stream, version, unanswered, handshaken, pc,
                                 result, response, params>>
          [] frame.kind = "Malformed" ->
                  /\ Return(Err("NetstringError"), log)
                  /\ UNCHANGED <<stream, version, unanswered, handshaken, response, params>>
          [] frame.kind = "Panic" ->
                  /\ pc' = "panicked"
                  /\ stream' = NoStream
                  /\ msg' = data
                  /\ calllog' = log
                  /\ UNCHANGED <<version, unanswered, handshaken, result,
                                 response, params>>
          [] frame.kind = "Ok" /\ pc = "connect_read" ->
                  /\ connect_finish(frame.payload, log)
                  /\ UNCHANGED <<stream, response, params>>
          [] frame.kind = "Ok" /\ pc = "wait_read" ->
                  /\ wait_finish(frame.payload, log)
                  /\ UNCHANGED <<stream, version, unanswered, handshaken>>

\* stream.read returns Ok(n), n > 0
ReadChunk ==
    /\ pc \in {"connect_read", "wait_read"}
    /\ inbox # <<>>
    /\ LET n == IF Len(inbox) < READ_BUF_LEN THEN Len(inbox) ELSE READ_BUF_LEN
           data == msg \o SubSeq(inbox, 1, n)
       IN  /\ inbox' = SubSeq(inbox, n + 1, Len(inbox))
           /\ read_turn(data, LogRead(calllog, data, TRUE))
           /\ cooperative' = NetcomClientAsync_read_netstring(
                                 cooperative, SubSeq(inbox, 1, n), overflow_checks, calllog')
    /\ UNCHANGED <<overflow_checks, codecVars, macroVars, auto_connect, opened, pending, closed,
                   call, calls>>

\* stream.read returns Ok(0): the peer closed the connection and every byte
\* it sent was read
ReadEof ==
    /\ pc \in {"connect_read", "wait_read"}
    /\ closed
    /\ inbox = <<>>
    /\ read_turn(msg, LogRead(calllog, msg, TRUE))
    /\ cooperative' = NetcomClientAsync_read_netstring(
                          cooperative, <<>>, overflow_checks, calllog')
    /\ UNCHANGED <<overflow_checks, codecVars, macroVars, auto_connect, opened, inbox, pending,
                   closed, call, calls>>

\* the caller of the cooperative client drops the future of an operation that
\* is suspended in wait_for_response's first stream.read(..).await, no byte of
\* the response having arrived (its timeout ran out on a peer that stalls):
\* the locals of the call are dropped, the client's fields are as they are
Abandon ==
    /\ pc = "wait_read"
    /\ msg = <<>>
    /\ inbox = <<>>
    /\ pc' = "idle"
    /\ result' = Abandoned
    /\ msg' = <<>>
    /\ cooperative' = [cooperative EXCEPT !.at = "idle", !.result = Abandoned, !.msg = <<>>]
    /\ UNCHANGED <<overflow_checks, codecVars, macroVars, stream, version, auto_connect,
                   transportVars, call, calllog, response, params, calls>>

\* stream.read returns Err, no received byte waiting to be read (a read with
\* bytes waiting returns them): read_netstring returns StreamError
ReadError ==
    /\ pc \in {"connect_read", "wait_read"}
    /\ inbox = <<>>
    /\ Return(Err("StreamError"), LogRead(calllog, msg, FALSE))
    /\ cooperative' = NetcomClientAsync_read_error(cooperative)
    /\ UNCHANGED <<overflow_checks, codecVars, macroVars, stream, version, auto_connect,
                   transportVars, call, response, params, calls>>

\* the peer answers a write: the reply, or its first segment, arrives.  The
\* client sees the stream only in read_netstring, so what arrives between two
\* calls is delivered when the next read waits
PeerSend ==
    /\ pc \in {"connect_read", "wait_read"}
    /\ unanswered > 0
    /\ pending = <<>>
    /\ \E script \in PeerScripts :
          \E k \in FirstSegments(script) :
              /\ inbox' = inbox \o SubSeq(script, 1, k)
              /\ pending' = SubSeq(script, k + 1, Len(script))
    /\ unanswered' = unanswered - 1
    /\ UNCHANGED <<overflow_checks, codecVars, macroVars, stream, version, auto_connect, opened,
                   handshaken, closed, pc, call, calllog, msg, result, response, params,
                   calls, cooperative>>

\* the peer closes the connection, with nothing more to come from it
PeerClose ==
    /\ pc \in {"connect_read", "wait_read"}
    /\ ~closed
    /\ inbox = <<>>
    /\ closed' = TRUE
    /\ pending' = <<>>
    /\ unanswered' = 0
    /\ UNCHANGED <<overflow_checks, codecVars, macroVars, stream, version, auto_connect, opened,
                   inbox, handshaken, pc, call, calllog, msg, result, response, params,
                   calls, cooperative>>

\* the rest of the peer's reply arrives
PeerFlush ==
    /\ pc \in {"connect_read", "wait_read"}
    /\ pending # <<>>
    /\ inbox' = inbox \o pending
    /\ pending' = <<>>
    /\ UNCHANGED <<overflow_checks, codecVars, macroVars, stream, version, auto_connect, opened,
                   unanswered, handshaken, closed, pc, call, calllog, msg, result,
                   response, params, calls, cooperative>>

\* the struct of the client's caller: InitialRecord with DefaultBindings
InitStruct ==
    /\ struct_bindings = DefaultBindings
    /\ original = InitialRecord
    /\ target = InitialRecord
    /\ result_map = [key \in {} |-> None]
    /\ ops = <<>>
    /\ macro_pc = "input"
    /\ wr_parameters = <<>>
    /\ wire_map = EmptyMap

Init ==
    /\ overflow_checks \in BOOLEAN
    /\ InitClient
    /\ InitStruct
    /\ stage = "input"
    /\ origin = "raw"
    /\ payload = <<>>
    /\ buffer = <<>>
    /\ parsed = [kind |-> "None", payload |-> <<>>]
    /\ earlier = [buf |-> <<>>, res |-> [kind |-> "None", payload |-> <<>>]]

Next ==
    \/ Connect
    \/ Disconnect
    \/ Drop
    \/ GetDeviceList
    \/ PushClientInfo
    \/ ReadParameters
    \/ WriteParameters
    \/ ReadStruct
    \/ WriteStruct
    \/ ReadChunk
    \/ ReadEof
    \/ ReadError
    \/ Abandon
    \/ PeerSend
    \/ PeerClose
    \/ PeerFlush

Spec == Init /\ [][Next]_vars

-----------------------------------------------------------------------------
(* the inputs of the codec's specification *)

MaxBufLen == 5
MaxPayloadLen == 3
MaxLongPayload == 11

Alphabet == {ZERO, ZERO + 1, ZERO + 2, COLON, COMMA, LETTER_X}

SeqsUpTo(S, n) == UNION {[1..k -> S] : k \in 0..n}

LongBuffers ==
    { TwoTo64Digits,
      TwoTo64Digits \o <<COLON>>,
      TwoTo64Digits \o <<COLON, COMMA>>,
      TwoTo64Plus1Digits \o <<COLON, LETTER_X, COMMA>>,
      TwoTo64Plus1Digits \o <<COLON, LETTER_X>> }

RawBuffers == SeqsUpTo(Alphabet, MaxBufLen) \cup LongBuffers

Payloads ==
    SeqsUpTo(Alphabet, MaxPayloadLen)
    \cup {[i \in 1..n |-> b] : n \in 0..MaxLongPayload, b \in Alphabet}

NoResult == [kind |-> "None", payload |-> <<>>]

NoEarlier == [buf |-> <<>>, res |-> NoResult]

InitCodec ==
    /\ stage = "input"
    /\ parsed = NoResult
    /\ earlier = NoEarlier
    /\ \/ origin = "payload" /\ payload \in Payloads /\ buffer = <<>>
       \/ origin = "raw" /\ payload = <<>> /\ buffer \in RawBuffers

\* buffer := payload.to_netstring()
ToNetstring ==
    /\ stage = "input" /\ origin = "payload"
    /\ buffer' = to_netstring(payload)
    /\ stage' = "encoded"
    /\ UNCHANGED <<overflow_checks, payload, parsed, origin, earlier, clientVars, macroVars>>

\* parsed := parse_netstring(&buffer)
ParseNetstring ==
    /\ \/ stage = "encoded"
       \/ stage = "input" /\ origin = "raw"
    /\ parsed' = parse_netstring(buffer, overflow_checks)
    /\ stage' = "parsed"
    /\ UNCHANGED <<overflow_checks, payload, buffer, origin, earlier, clientVars, macroVars>>

\* the caller's retry: it calls parse_netstring again, on the same buffer or
\* after one more byte was appended to it
AppendAndRetry ==
    /\ stage = "parsed"
    /\ \E ext \in {<<>>} \cup {<<c>> : c \in Alphabet} : buffer' = buffer \o ext
    /\ earlier' = [buf |-> buffer, res |-> parsed]
    /\ parsed' = parse_netstring(buffer', overflow_checks)
    /\ stage' = "retried"
    /\ UNCHANGED <<overflow_checks, payload, origin, clientVars, macroVars>>

\* a turn of read_netstring's loop that parses the bytes of the last read only
extend_and_parse_ChunkOnly(m, chunk, checks) ==
    [msg |-> m \o chunk, res |-> parse_netstring(chunk, checks)]

\* a turn of read_netstring's loop: msg.extend_from_slice(&buf[..n]) and
\* parse_netstring(&msg)
extend_and_parse(m, chunk, checks) ==
    [msg |-> m \o chunk, res |-> parse_netstring(m \o chunk, checks)]

\* read_netstring while the peer's frame payload.to_netstring() arrives: a
\* read delivers one or more of the bytes that have not arrived yet, and the
\* loop ends when the parse is not Incomplete.  buffer is msg.
ReadSplit ==
    /\ origin = "payload"
    /\ stage \in {"encoded", "reading"}
    /\ LET frame == to_netstring(payload)
           m == IF stage = "encoded" THEN <<>> ELSE buffer
       IN  \E n \in 1..(Len(frame) - Len(m)) :
              LET turn == extend_and_parse(m, SubSeq(frame, Len(m) + 1, Len(m) + n),
                                           overflow_checks)
              IN  /\ n <= READ_BUF_LEN
                  /\ buffer' = turn.msg
                  /\ parsed' = turn.res
                  /\ earlier' = [buf |-> m, res |-> IF stage = "encoded" THEN NoResult ELSE parsed]
                  /\ stage' = IF turn.res.kind = "Incomplete" THEN "reading" ELSE "returned"
    /\ UNCHANGED <<overflow_checks, payload, origin, clientVars, macroVars>>

InitNetstring ==
    /\ overflow_checks \in BOOLEAN
    /\ InitCodec
    /\ InitClient
    /\ InitStruct

NextNetstring == ToNetstring \/ ParseNetstring \/ AppendAndRetry \/ ReadSplit

SpecNetstring == InitNetstring /\ [][NextNetstring]_vars

-----------------------------------------------------------------------------
(* the inputs of the specification of the generated methods *)

FieldNames == {"level", "limit", "note"}
FieldValues == {5, 6, 7}
ParamNames == {"a", "b"}
MapKeys == {"a", "b", "c"}
MapValues == {None, Some(1), Some(2)}

\* the structs of the specification: one to three f64 fields are declared
\* in one of two orders, and each of the first two has a #[param] or none
BindingLists ==
    { <<>>,
      <<[field |-> "level", p |-> "a"]>>,
      <<[field |-> "limit", p |-> "b"]>>,
      <<[field |-> "level", p |-> "a"], [field |-> "limit", p |-> "b"]>>,
      <<[field |-> "limit", p |-> "b"], [field |-> "level", p |-> "a"]>>,
      <<[field |-> "level", p |-> "b"], [field |-> "limit", p |-> "a"]>>,
      <<[field |-> "level", p |-> "a"], [field |-> "limit", p |-> "a"]>> }

Records == [FieldNames -> FieldValues]

ResultMaps == UNION {[keys -> MapValues] : keys \in SUBSET MapKeys}

InitNetcomMap ==
    /\ overflow_checks \in BOOLEAN
    /\ InitClient
    /\ stage = "input"
    /\ origin = "raw"
    /\ payload = <<>>
    /\ buffer = <<>>
    /\ parsed = NoResult
    /\ earlier = NoEarlier
    /\ struct_bindings \in BindingLists
    /\ original \in Records
    /\ target = original
    /\ result_map \in ResultMaps
    /\ ops = <<>>
    /\ macro_pc = "input"
    /\ wr_parameters = <<>>
    /\ wire_map = EmptyMap

\* target.apply_result(&result_map)
ApplyResult ==
    /\ macro_pc = "input"
    /\ target' = apply_result(target, result_map)
    /\ macro_pc' = "applied"
    /\ UNCHANGED <<overflow_checks, codecVars, clientVars, struct_bindings, original, result_map, ops,
                   wr_parameters, wire_map>>

\* ops := target.to_rdops()
ToRdops ==
    /\ macro_pc = "input"
    /\ ops' = to_rdops(target)
    /\ macro_pc' = "rdops"
    /\ UNCHANGED <<overflow_checks, codecVars, clientVars, struct_bindings, original, target,
                   result_map, wr_parameters, wire_map>>

\* ops := target.to_wrops()
ToWrops ==
    /\ macro_pc = "input"
    /\ ops' = to_wrops(target)
    /\ macro_pc' = "wrops"
    /\ UNCHANGED <<overflow_checks, codecVars, clientVars, struct_bindings, original, target,
                   result_map, wr_parameters, wire_map>>

NextNetcomMap == ApplyResult \/ ToRdops \/ ToWrops

SpecNetcomMap == InitNetcomMap /\ [][NextNetcomMap]_vars

-----------------------------------------------------------------------------
(* the inputs of the specification of write_parameters' request *)

MaxOps == 3
TypeNames == {"i16"}
WrValues == {1, 2}

WrOps ==
    {WrDefault(name, v) : name \in ParamNames, v \in WrValues}
    \cup {WrWithType(name, t, v) : name \in ParamNames, t \in TypeNames, v \in WrValues}

WrOpLists == SeqsUpTo(WrOps, MaxOps)

\* write_parameters up to send_request: the loop of inserts and the DTO
CompileWrite ==
    /\ macro_pc = "input"
    /\ \E parameters \in WrOpLists :
          /\ wr_parameters' = parameters
          /\ wire_map' = WriteRequestDto(Device, parameters).p
    /\ macro_pc' = "compiled"
    /\ UNCHANGED <<overflow_checks, codecVars, clientVars, struct_bindings, original, target,
                   result_map, ops>>

NextWriteMap == CompileWrite

SpecWriteMap == Init /\ [][NextWriteMap]_vars


-----------------------------------------------------------------------------
(* what the codec's claims speak of: the frame a buffer spells out, read off *)
(* the bytes without running the parser                                      *)

\* the number of ASCII digits the buffer starts with
LeadingDigits(buf) ==
    CHOOSE k \in 0..Len(buf) :
        /\ \A j \in 1..k : IsDigit(buf[j])
        /\ k = Len(buf) \/ ~IsDigit(buf[k + 1])

\* the decimal value of the first k bytes, or cap when the value is larger
RECURSIVE DecimalUpTo(_, _, _)
DecimalUpTo(buf, k, cap) ==
    IF k = 0 THEN 0
    ELSE LET hi == DecimalUpTo(buf, k - 1, cap)
             v == hi * 10 + (buf[k] - ZERO)
         IN  IF v > cap THEN cap ELSE v

\* a non-empty digit run followed by ':'
HasLengthPrefix(buf) ==
    LET k == LeadingDigits(buf)
    IN  k >= 1 /\ k < Len(buf) /\ buf[k + 1] = COLON

\* the bytes after the ':'
BytesAfterPrefix(buf) == Len(buf) - (LeadingDigits(buf) + 1)

\* the declared length L, or Len(buf) when L is larger than that
DeclaredLength(buf) == DecimalUpTo(buf, LeadingDigits(buf), Len(buf))

ParsedRaw == stage = "parsed" /\ origin = "raw"

\* C8: for every payload p, the empty one included, parse_netstring applied
\* to to_netstring(p) returns Ok(p).
C8_RoundTrip ==
    (stage = "parsed" /\ origin = "payload") => parsed = Complete(payload)

\* a payload long enough for a two-digit length prefix has made the round trip
C8_Witness ==
    /\ stage = "parsed" /\ origin = "payload"
    /\ Len(payload) >= 10
    /\ parsed = Complete(payload)

\* C9: a buffer that starts with a non-empty digit run of value L, then ':',
\* then at least L+1 further bytes parses to Ok with exactly the L bytes after
\* the ':' when the byte after them is ',', and to Malformed when it is any
\* other byte, whatever follows the terminator.
C9_TerminatorDecides ==
    (/\ ParsedRaw
     /\ HasLengthPrefix(buffer)
     /\ BytesAfterPrefix(buffer) >= DeclaredLength(buffer) + 1)
    => LET k == LeadingDigits(buffer)
           L == DeclaredLength(buffer)
       IN  IF buffer[k + 1 + L + 1] = COMMA
           THEN parsed = Complete(SubSeq(buffer, k + 2, k + 1 + L))
           ELSE parsed = Malformed

\* a frame with a non-empty payload and a byte after its terminator was parsed
C9_Witness ==
    /\ ParsedRaw
    /\ HasLengthPrefix(buffer)
    /\ BytesAfterPrefix(buffer) > DeclaredLength(buffer) + 1
    /\ parsed.kind = "Ok" /\ Len(parsed.payload) >= 1

\* C10: parse_netstring returns Incomplete for the empty buffer, for a buffer
\* of ASCII digits only, and for a non-empty digit run of value L, ':' and
\* fewer than L+1 further bytes.
C10_IncompleteUntilFrameArrived ==
    (/\ ParsedRaw
     /\ \/ buffer = <<>>
        \/ LeadingDigits(buffer) = Len(buffer)
        \/ /\ HasLengthPrefix(buffer)
           /\ BytesAfterPrefix(buffer) < DeclaredLength(buffer) + 1)
    => parsed = Incomplete

\* a byte that is neither an ASCII digit nor ':' stands in the buffer with no
\* ':' before it
StrayByteBeforeColon(buf) ==
    \E j \in 1..Len(buf) :
        /\ ~IsDigit(buf[j])
        /\ buf[j] # COLON
        /\ \A k \in 1..(j - 1) : buf[k] # COLON

\* C11: for a buffer of any length, one or two bytes included, in which a
\* byte that is neither a digit nor ':' comes before the first ':',
\* parse_netstring returns Malformed
C11_StrayByteIsMalformed ==
    (ParsedRaw /\ StrayByteBeforeColon(buffer)) => parsed = Malformed

\* C12: for a buffer whose first byte is ':', parse_netstring returns
\* Malformed, whatever follows the ':'
C12_EmptyDigitRunIsMalformed ==
    (ParsedRaw /\ buffer # <<>> /\ buffer[1] = COLON) => parsed = Malformed

\* C13: parse_netstring returns Ok(p) only if the decimal value of the
\* buffer's digit run is Len(p), however long the digit run is
C13_DeclaredLengthIsPayloadLength ==
    (stage = "parsed" /\ parsed.kind = "Ok")
        => DeclaredLength(buffer) = Len(parsed.payload)

\* C14: a retry on the same buffer gives the same result; a retry after a
\* byte was appended gives the same Ok(p) where the call before gave Ok(p),
\* and Malformed where it gave Malformed.  Every buffer is the start of a
\* retry, so the same holds for extensions of any length, one byte after
\* another
C14_StableUnderAppend ==
    stage = "retried" =>
        /\ SubSeq(buffer, 1, Len(earlier.buf)) = earlier.buf
        /\ buffer = earlier.buf => parsed = earlier.res
        /\ earlier.res.kind = "Ok" => parsed = earlier.res
        /\ earlier.res = Malformed => parsed = Malformed

C14_Witness ==
    /\ stage = "retried"
    /\ Len(buffer) = Len(earlier.buf) + 1
    /\ earlier.res.kind = "Ok"
    /\ Len(earlier.res.payload) >= 1
    /\ parsed = earlier.res

\* C27: however the frame of a payload is split into reads, read_netstring
\* goes on reading while it holds a proper prefix of the frame, which parses
\* as Incomplete, and returns the payload at the read that brings the last
\* byte; it never returns Malformed
C27_ReturnsAtLastByte ==
    LET frame == to_netstring(payload)
    IN  /\ stage = "reading" =>
              /\ Len(buffer) < Len(frame)
              /\ buffer = SubSeq(frame, 1, Len(buffer))
              /\ parsed = Incomplete
        /\ stage = "returned" =>
              /\ buffer = frame
              /\ parsed = Complete(payload)
        /\ (stage \in {"reading", "returned"} /\ Len(buffer) < Len(frame)) =>
              stage = "reading"

\* the frame of a payload of ten bytes or more was read in two reads or
\* more, the last of which brought the terminator alone
C27_Witness ==
    /\ stage = "returned"
    /\ Len(payload) >= 10
    /\ parsed = Complete(payload)
    /\ Len(earlier.buf) = Len(buffer) - 1
    /\ earlier.res = Incomplete

-----------------------------------------------------------------------------
(* what the client's claims speak of, read off the call's log *)

\* the bytes "PROTO30\n"
Proto30Newline == <<80, 82, 79, 84, 79, 51, 48, 10>>

\* the request tag of each operation
RequestTag(op) ==
    CASE op = "get_device_list" -> "device-list"
      [] op = "push_client_info" -> "client-info"
      [] op \in {"read_parameters", "read_struct"} -> "read"
      [] op \in {"write_parameters", "write_struct"} -> "write"

\* the places of the call's log where a request frame was handed to write
RequestWrites == {i \in 1..Len(calllog) : calllog[i].ev = "write" /\ calllog[i].buf # Proto30Newline}

\* the call returned
Returned == pc = "idle" /\ call.op # "none"

\* C1: a high-level operation whose decoded response carries a discriminator
\* "R" other than the operation's request tag returns no success value but a
\* ResponseError
C1_MismatchIsResponseError ==
    (Returned /\ call.op \in HighLevelOps /\ response # NoDto
       /\ response.r # RequestTag(call.op))
        => result.kind = "ResponseError"

C1_Witness ==
    /\ Returned
    /\ call.op = "push_client_info"
    /\ response.r = "read"
    /\ result.kind = "ResponseError"

\* C2: whenever no call is in progress, the client holds a transport handle
\* if and only if the handshake completed on that transport
C2_HandleIffHandshake ==
    pc = "idle" => (stream # NoStream <=> handshaken)

\* C3: when a call has returned a StreamError or a NetstringError, the client
\* holds no transport handle
C3_FatalErrorReleasesHandle ==
    (Returned /\ result.kind \in {"StreamError", "NetstringError"})
        => stream = NoStream

\* C4: a request frame is handed to a transport only after the handshake
\* response read from that transport was decoded and its version stored
C4_RequestOnlyAfterHandshake ==
    (call.op \in Operations /\ \E i \in RequestWrites : calllog[i].ok)
        => (handshaken /\ version # NoVersion)

\* C5: on a connection whose handshake completed, an operation that went on
\* to wait for its response wrote its request frame once and whole, and one
\* that returned a value then read one frame
C5_OneRequestOneResponse ==
    (call.op \in Operations /\ handshaken
       /\ (pc = "wait_read" \/ (Returned /\ result.kind = "Ok")))
        => /\ Cardinality(RequestWrites) = 1
           /\ \A i \in RequestWrites :
                 /\ calllog[i].ok
                 /\ calllog[i].buf = call.frame
                 /\ calllog[i].n = Len(call.frame)
                 /\ Returned => (Len(calllog) = i + 1 /\ calllog[i + 1].ev = "read")

\* C6 (the log): with no handle held when it began, an operation's log opens
\* a transport first and has its request write only fourth, after the open,
\* the whole handshake line and the read of a handshake frame; with a handle
\* held, the log has no open and no handshake, and begins with the request
C6_LogOfPrepare ==
    call.op \in Operations =>
        IF call.connected
        THEN /\ \A i \in 1..Len(calllog) :
                   calllog[i].ev # "open" /\ calllog[i].buf # Proto30Newline
             /\ calllog # <<>> => 1 \in RequestWrites
        ELSE auto_connect =>
             /\ calllog # <<>> => calllog[1].ev = "open"
             /\ \A i \in RequestWrites :
                   /\ i = 4
                   /\ calllog[1].ev = "open" /\ calllog[1].ok
                   /\ calllog[2].ev = "write" /\ calllog[2].ok
                   /\ calllog[2].buf = Proto30Newline
                   /\ calllog[2].n = Len(Proto30Newline)
                   /\ calllog[3].ev = "read" /\ calllog[3].ok
                   /\ parse_netstring(calllog[3].buf, overflow_checks).kind = "Ok"

\* C6 (the state): an operation that begins with a handle held leaves the
\* handle, the version and the transport as they were
C6_PrepareKeepsState ==
    (pc = "idle" /\ stream # NoStream /\ calls' = calls + 1 /\ call'.op \in Operations)
        => /\ stream' = stream
           /\ version' = version
           /\ auto_connect' = auto_connect
           /\ opened' = opened
           /\ handshaken' = handshaken
           /\ inbox' = inbox

\* C6: with auto_connect set and no handle held, an operation performs
\* connect() (open, handshake line, handshake frame read) before it writes its
\* request; with a handle held, prepare() does nothing to the transport and
\* changes no state
C6_LazyConnect == []C6_LogOfPrepare /\ [][C6_PrepareKeepsState]_vars

C6_Witness ==
    /\ Returned
    /\ call.op = "read_parameters"
    /\ ~call.connected
    /\ result.kind = "Ok"
    /\ Len(calllog) = 5
    /\ RequestWrites = {4}

\* C7: what the client does first on a transport it opened is to write the
\* line PROTO30 and a newline, before any frame is written to or any byte
\* read from it; a connect() that succeeds then read one frame and stored
\* the version it holds
C7_HandshakeFirst ==
    /\ \A i \in 1..Len(calllog) :
          (calllog[i].ev = "open" /\ calllog[i].ok) =>
              /\ i = 1
              /\ Len(calllog) >= 2
              /\ calllog[2].ev = "write"
              /\ calllog[2].buf = Proto30Newline
    /\ (Returned /\ call.op = "connect" /\ result.kind = "Ok") =>
          /\ Len(calllog) = 3
          /\ calllog[2].ok /\ calllog[2].n = Len(Proto30Newline)
          /\ calllog[3].ev = "read"
          /\ LET frame == parse_netstring(calllog[3].buf, overflow_checks)
             IN  /\ frame.kind = "Ok"
                 /\ HasLengthPrefix(calllog[3].buf)
                 /\ BytesAfterPrefix(calllog[3].buf) = DeclaredLength(calllog[3].buf) + 1
                 /\ IsJson(frame.payload)
                 /\ HasMember(JsonValue(frame.payload), "version")
                 /\ version = Some(Get(JsonValue(frame.payload), "version").s)

C7_Witness ==
    /\ Returned
    /\ call.op = "connect"
    /\ result.kind = "Ok"
    /\ version = Some("1")
    /\ stream # NoStream


\* C15: the ResponseError a high-level operation returns names the
\* operation's own request tag as the expected one and the tag of the decoded
\* response as the one received
C15_ErrorNamesBothTags ==
    (Returned /\ call.op \in HighLevelOps /\ result.kind = "ResponseError")
        => /\ result.expected = RequestTag(call.op)
           /\ result.got = response.r


\* the errors of parse_json and of the match on r.r
DecodeOrMismatch == {"Utf8Error", "JsonError", "ResponseError"}

\* C16: when a high-level operation has returned a decode error or a
\* mismatch error the handle is still held and the transport is where the
\* next operation needs it: the failed operation's response was consumed, so
\* no byte and no reply of the peer is outstanding, and the next response
\* read is the one to the next request
C16_DecodeErrorLeavesTransportUsable ==
    (Returned /\ call.op \in HighLevelOps /\ result.kind \in DecodeOrMismatch)
        => /\ stream # NoStream
           /\ inbox = <<>>
           /\ pending = <<>>
           /\ unanswered = 0


\* a step changes the caller's record only as the return of a read_struct
\* whose response carried the discriminator "read", with Ok
C17_RecordStep ==
    params' # params =>
        /\ call.op = "read_struct"
        /\ pc = "wait_read" /\ pc' = "idle"
        /\ result'.kind = "Ok"
        /\ response'.r = "read"
        /\ params' = apply_result(params, result'.value)

\* C17: a read_struct that returns an error has changed no field of the
\* caller's record, apply_result runs only after a response with the matching
\* discriminator, and write_struct never changes the record
C17_RecordChangesOnlyOnMatch == [][C17_RecordStep]_vars

C17_Witness ==
    /\ Returned
    /\ call.op = "read_struct"
    /\ result.kind = "ResponseError"
    /\ response.r = "write"
    /\ response.result # <<>>
    /\ params = InitialRecord


\* C18: an operation that began with no handle held and did not get as far
\* as its request, auto-connect being off or its connect() having failed,
\* returns NotConnected
C18_NoHandleIsNotConnected ==
    (Returned /\ call.op \in Operations /\ ~call.connected /\ RequestWrites = {})
        => result.kind = "NotConnected"


\* C22: disconnect() leaves no transport handle, whether one was held or not
\* (so a second disconnect() changes nothing), is_connected() is true exactly
\* when a handle is held, and dropping the client releases the handle too
C22_DisconnectReleases ==
    /\ is_connected <=> stream # NoStream
    /\ (Returned /\ call.op = "disconnect") =>
            ~is_connected /\ result = Ok(<<>>) /\ inbox = <<>> /\ unanswered = 0
    /\ pc = "dropped" => ~is_connected /\ inbox = <<>> /\ unanswered = 0

\* disconnect() returned after it was called with a transport held
C22_Witness ==
    /\ Returned
    /\ call.op = "disconnect"
    /\ call.connected
    /\ ~is_connected

\* C23: given the same calls and the same outcomes of the transport's
\* operations, the chunks of the peer's bytes among them, the cooperative
\* client has written the same bytes in the same order, is at the same
\* point, has returned the same result and holds a transport exactly when
\* the blocking client does
C23_ModesAgree ==
    /\ cooperative.log = calllog
    /\ cooperative.at = pc
    /\ cooperative.result = result
    /\ cooperative.stream <=> is_connected
    /\ cooperative.version = version
    /\ cooperative.params = params

\* both clients returned Ok from an operation that connected first, shook
\* hands, wrote its request and read its response
C23_Witness ==
    /\ Returned
    /\ result.kind = "Ok"
    /\ call.op \in Operations
    /\ ~call.connected
    /\ Len(calllog) = 5
    /\ calllog[4].ev = "write" /\ calllog[4].buf = call.frame
    /\ cooperative.result = result
    /\ cooperative.log = calllog

\* C24: a call opens a transport at most once and writes its request frame
\* at most once; only the last transport operation of a call may have
\* failed, and the request is written only after a handshake that was read
\* and decoded
C24_NoRetry ==
    /\ Cardinality({i \in 1..Len(calllog) : calllog[i].ev = "open"}) <= 1
    /\ Cardinality(RequestWrites) <= 1
    /\ \A i \in 1..Len(calllog) : ~calllog[i].ok => i = Len(calllog)
    /\ \A i \in RequestWrites : \A j \in 1..(i - 1) :
          calllog[j].ev = "read" =>
              LET frame == parse_netstring(calllog[j].buf, overflow_checks)
              IN  /\ frame.kind = "Ok"
                  /\ parse_json("UpgradeResponseDto", frame.payload).kind = "Ok"
    /\ (Returned /\ result.kind \notin {"Ok", "None", "Abandoned"} /\ calllog # <<>>) =>
          \/ ~calllog[Len(calllog)].ok
          \/ calllog[Len(calllog)].ev = "read"

\* an operation connected, shook hands and returned the error of its
\* request's write
C24_Witness ==
    /\ Returned
    /\ result.kind = "StreamError"
    /\ Len(calllog) = 4
    /\ calllog[1].ev = "open" /\ calllog[1].ok
    /\ calllog[4].ev = "write" /\ ~calllog[4].ok
    /\ calllog[4].buf = call.frame

\* C25: read_netstring goes on reading exactly while the bytes it has
\* accumulated are an incomplete frame: every read_netstring that is over
\* ended with a failed read or with a buffer that decodes as a frame or as
\* malformed, also when the peer had closed the connection and reads
\* returned no byte
C25_ReturnsOnlyOnFrameOrError ==
    /\ pc \in {"connect_read", "wait_read"} =>
          parse_netstring(msg, overflow_checks).kind = "Incomplete"
    /\ \A i \in 1..Len(calllog) :
          (calllog[i].ev = "read"
              /\ (i < Len(calllog)
                    \/ (pc \notin {"connect_read", "wait_read", "panicked"}
                          /\ result # Abandoned))) =>
              \/ ~calllog[i].ok
              \/ parse_netstring(calllog[i].buf, overflow_checks).kind \in {"Ok", "Malformed"}

\* the peer closed the connection before it sent a byte of the response, a
\* read returned no byte, and wait_for_response is still reading
C25_Witness ==
    /\ pc = "wait_read"
    /\ closed
    /\ calllog[Len(calllog)] = EvRead(<<>>, TRUE)

\* C26: when send_request returned Ok, the transport has accepted every byte
\* of the request's frame
C26_RequestWrittenWhole ==
    \A i \in RequestWrites :
        calllog[i].ok => calllog[i].n = Len(calllog[i].buf)

\* the bytes of a read buffer after the terminator of the frame it parses to
BytesAfterFrame(buf) ==
    LET frame == parse_netstring(buf, overflow_checks)
    IN  SubSeq(buf, LeadingDigits(buf) + Len(frame.payload) + 3, Len(buf))

\* the bytes the read_netstring after the i-th entry of the log began with, or
\* msg when there was none yet
SeenNext(i) ==
    IF \E j \in (i + 1)..Len(calllog) : calllog[j].ev = "read"
    THEN calllog[CHOOSE j \in (i + 1)..Len(calllog) : calllog[j].ev = "read"].buf
    ELSE msg

\* C28: the bytes that read_netstring had read after the terminator of the
\* frame it returned are kept, and the next read_netstring begins with them
C28_NoByteLost ==
    \A i \in 1..Len(calllog) :
        (/\ calllog[i].ev = "read"
         /\ calllog[i].ok
         /\ i < Len(calllog) \/ pc = "idle"
         /\ parse_netstring(calllog[i].buf, overflow_checks).kind = "Ok") =>
            LET rest == BytesAfterFrame(calllog[i].buf)
            IN  /\ Len(rest) <= Len(SeenNext(i))
                /\ rest = SubSeq(SeenNext(i), 1, Len(rest))

\* the call read a frame from the peer and returned what it made of it
ReadAResponse ==
    /\ Returned
    /\ result # Abandoned
    /\ calllog # <<>>
    /\ calllog[Len(calllog)].ev = "read"
    /\ calllog[Len(calllog)].ok
    /\ parse_netstring(calllog[Len(calllog)].buf, overflow_checks).kind = "Ok"

\* C29: the operation after an abandoned one reads the response to its own
\* request: it does not write its request to a transport on which bytes of
\* an earlier response are still to come or to be read
C29_NextCallGetsOwnResponse ==
    (call.op \in Operations /\ call.after_abandon /\ ReadAResponse) =>
        ~(call.connected /\ call.stale)

-----------------------------------------------------------------------------
(* what the claims of the generated methods speak of *)

\* the value the field has after apply_result: that of the map under the
\* name the field is bound to, when there is one and it is not null
FieldAfterApply(field) ==
    LET bound == {i \in 1..Len(struct_bindings) : struct_bindings[i].field = field}
        given == {i \in bound : /\ struct_bindings[i].p \in DOMAIN result_map
                                /\ result_map[struct_bindings[i].p] # None}
    IN  IF given = {} THEN original[field]
        ELSE result_map[struct_bindings[CHOOSE i \in given : TRUE].p].v

\* C19: apply_result sets each bound field to the map's value when the map
\* holds the binding's name with a non-null value, leaves it as it was when
\* the name is absent or null, and changes no unbound field
C19_ApplyResultLaw ==
    macro_pc = "applied" =>
        /\ DOMAIN target = DOMAIN original
        /\ \A field \in DOMAIN original : target[field] = FieldAfterApply(field)

\* a map with a value for one bound field, null for the other and a value
\* for a name no field is bound to was applied
C19_Witness ==
    /\ macro_pc = "applied"
    /\ Len(struct_bindings) = 2
    /\ \E i, j \in 1..2 :
          /\ struct_bindings[i].p \in DOMAIN result_map /\ result_map[struct_bindings[i].p] = None
          /\ struct_bindings[j].p \in DOMAIN result_map /\ result_map[struct_bindings[j].p] # None
          /\ target[struct_bindings[i].field] = original[struct_bindings[i].field]
          /\ target[struct_bindings[j].field] # original[struct_bindings[j].field]
    /\ "c" \in DOMAIN result_map /\ result_map["c"] # None
    /\ target.note = original.note

\* C20: to_rdops returns one RdOp::Default of the name per binding and
\* to_wrops one WrOp::Default of the name and of the bound field's value per
\* binding, in the order of the bindings, and the record is as it was
C20_OpsFollowBindings ==
    macro_pc \in {"rdops", "wrops"} =>
        /\ target = original
        /\ Len(ops) = Len(struct_bindings)
        /\ \A i \in 1..Len(struct_bindings) :
              /\ ops[i].variant = "Default"
              /\ ops[i].p = struct_bindings[i].p
              /\ macro_pc = "rdops" => DOMAIN ops[i] = {"variant", "p", "t"}
              /\ macro_pc = "wrops" => ops[i].v = original[struct_bindings[i].field]

\* to_wrops ran on a struct whose two bound fields hold different values
C20_Witness ==
    /\ macro_pc = "wrops"
    /\ Len(ops) = 2
    /\ ops[1].v # ops[2].v
    /\ ops[1].p # ops[2].p

-----------------------------------------------------------------------------
(* what the claim of write_parameters' request speaks of *)

\* the last operation of the list that names the parameter
LastOp(parameters, name) ==
    parameters[CHOOSE i \in 1..Len(parameters) :
                   /\ parameters[i].p = name
                   /\ \A j \in (i + 1)..Len(parameters) : parameters[j].p # name]

\* C21: the map of a write request has one entry per distinct name of the
\* list; the entry is the bare number v for Default(name, v) and the object
\* {v, t} for WithType(name, t, v), taken from the last operation of that name
C21_WriteMapLastWins ==
    macro_pc = "compiled" =>
        /\ DOMAIN wire_map = {wr_parameters[i].p : i \in 1..Len(wr_parameters)}
        /\ \A name \in DOMAIN wire_map :
              LET op == LastOp(wr_parameters, name)
              IN  /\ op.variant = "Default" => wire_map[name] = JNum(op.v)
                  /\ op.variant = "WithType" =>
                        /\ wire_map[name].t = "obj"
                        /\ Get(wire_map[name], "v") = JNum(op.v)
                        /\ Get(wire_map[name], "t") = JStr(op.t)
                        /\ Len(wire_map[name].items) = 2

\* a list that names one parameter twice, with different values and
\* variants, and another one once, was compiled
C21_Witness ==
    /\ macro_pc = "compiled"
    /\ Len(wr_parameters) = 3
    /\ wr_parameters[1].p = wr_parameters[3].p
    /\ wr_parameters[1].p # wr_parameters[2].p
    /\ wr_parameters[1].variant = "Default"
    /\ wr_parameters[3].variant = "WithType"
    /\ wr_parameters[1].v # wr_parameters[3].v
    /\ Cardinality(DOMAIN wire_map) = 2

=============================================================================
